---- MODULE Spec2Model ----
(***************************************************************************)
(* Stateless experience export of ai-assimilation-mcp: the session         *)
(* directory on disk is the only session state.  The model covers the      *)
(* tools export_experience_init, export_experience_conversations,          *)
(* export_experience_thoughts, export_experience_finalize,                 *)
(* get_export_status, validate_experience and list_experiences together    *)
(* with the file helpers they call.                                        *)
(*                                                                         *)
(* A file name is a record [stem, digits]; the extension ".json" is common *)
(* to every file the tools touch.  A file content is the parsed JSON value *)
(* tagged with its kind; [kind |-> "partial"] is a file that a failed      *)
(* write left truncated, which JSON.parse rejects.                         *)
(*                                                                         *)
(* Storage faults: a mutating filesystem call (mkdir, writeFile, unlink)   *)
(* may fail; reads of existing paths do not fail.  Each call carries the   *)
(* fault, if any, that the filesystem raises during it.  The fault "crash" *)
(* of finalize is the process dying between the manifest write and the     *)
(* removal of summary.json.                                                *)
(*                                                                         *)
(* fs maps a session identifier to its directory, pre is fs before the     *)
(* latest call and last is that call with its response.  calls holds the   *)
(* calls that are followed await by await, for the interleavings of        *)
(* concurrent calls; every other call runs to completion in one step.      *)
(* manager is the memory of the process: the ExportManager with its map    *)
(* activeSessions, which is lost when the process restarts.                *)
(***************************************************************************)
EXTENDS Integers, Sequences, FiniteSets, TLC

VARIABLES fs, pre, last, calls, manager

vars == <<fs, pre, last, calls, manager>>

\* ------------------------------------------------------------------ bounds
MaxBatch == 2
MaxRecords == 1
MaxGenerated == 1

\* ------------------------------------------------------- program constants
PadWidth == 3
ConversationBatchSize == 50
CompletedSentinel == 0 - 1
Radix == 10

\* --------------------------------------------------------------- input sets
\* A conversation record as the tool's input schema delivers it.
RecordIds == {[user_input |-> "q1", ai_response |-> "a1"]}

Summaries == {"sumA"}

ThoughtsInputs == {"t1"}

BatchNumbers == 1..MaxBatch

RECURSIVE SeqsUpTo(_, _)
SeqsUpTo(S, n) ==
  IF n = 0 THEN {<<>>}
  ELSE LET shorter == SeqsUpTo(S, n - 1)
       IN  shorter \cup {Append(q, x) : q \in shorter, x \in S}

RecordLists == SeqsUpTo(RecordIds, MaxRecords)

\* Session identifiers a caller may pass; <<>> is the empty (or omitted) id.
SessionIds == { <<>>, <<"s">>, <<"/">>, <<"s", "\\">>, <<".", ".">> }

\* Identifiers passed only to probe the identifier check; calls with them
\* carry fixed payloads.
ProbeIds == SessionIds \ {<<"s">>}

\* The k-th identifier produced by uuidv4(); it never holds a path character.
Uuid(k) == [i \in 1..k |-> "u"]

Uuids == {Uuid(k) : k \in 1..MaxGenerated}

DirIds == SessionIds \cup Uuids

\* --------------------------------------------------------------- file names
ManifestName == [stem |-> "manifest", digits |-> <<>>]
SummaryName == [stem |-> "summary", digits |-> <<>>]
ThoughtsName == [stem |-> "thoughts", digits |-> <<>>]
EmptyName == [stem |-> "", digits |-> <<>>]

RECURSIVE DigitsOf(_)
DigitsOf(n) ==
  IF n < Radix THEN <<n>> ELSE Append(DigitsOf(n \div Radix), n % Radix)

RECURSIVE PadStart(_, _)
PadStart(ds, width) ==
  IF Len(ds) >= width THEN ds ELSE PadStart(<<0>> \o ds, width)

BatchFileName(n) ==
  [stem |-> "conversations_", digits |-> PadStart(DigitsOf(n), PadWidth)]

RECURSIVE ParseInt(_)
ParseInt(ds) ==
  IF ds = <<>> THEN 0
  ELSE ParseInt(SubSeq(ds, 1, Len(ds) - 1)) * Radix + ds[Len(ds)]

IsConversationFile(f) == f.stem = "conversations_"

\* ------------------------------------------------------------ path resolver
Includes(s, sub) ==
  \E i \in 1..(Len(s) - Len(sub) + 1) : SubSeq(s, i, i + Len(sub) - 1) = sub

\* Variant: the parent-directory sequence is not looked for.
validateSessionId_NoDotDot(sid) ==
  ~(sid = <<>> \/ Includes(sid, <<"/">>) \/ Includes(sid, <<"\\">>))

validateSessionId(sid) ==
  ~(sid = <<>> \/ Includes(sid, <<"/">>) \/ Includes(sid, <<"\\">>)
      \/ Includes(sid, <<".", ".">>))

\* -------------------------------------------------------------- directories
NoFiles == [f \in {} |-> [kind |-> "none"]]

AbsentDir == [exists |-> FALSE, files |-> NoFiles]

EmptyDir == [exists |-> TRUE, files |-> NoFiles]

Listing(d) == DOMAIN d.files

PutFile(d, name, content) ==
  [exists |-> TRUE,
   files |-> [f \in Listing(d) \cup {name} |->
                IF f = name THEN content ELSE d.files[f]]]

RemoveFile(d, name) ==
  [d EXCEPT !.files = [f \in Listing(d) \ {name} |-> d.files[f]]]

ensureDirectory(d) == [d EXCEPT !.exists = TRUE]

Partial == [kind |-> "partial"]

NoData == [kind |-> "none"]

\* --------------------------------------------------------------- validation
\* Field names of a JSON object; "kind" is the tag of the model, not a field.
Fields(c) == DOMAIN c \ {"kind"}

\* Items of the conversations array: user_input and ai_response are required
\* and additional properties are allowed.
conversationItemSchema(r) == {"user_input", "ai_response"} \subseteq DOMAIN r

\* batch_info: batch_number >= 1 and count >= 0 are required, start_index and
\* end_index are >= 1 when present, and no other property is allowed.
batchInfoSchema(b) ==
  /\ {"batch_number", "count"} \subseteq DOMAIN b
  /\ DOMAIN b \subseteq {"batch_number", "count", "start_index", "end_index"}
  /\ b.batch_number >= 1
  /\ b.count >= 0
  /\ "start_index" \in DOMAIN b => b.start_index >= 1
  /\ "end_index" \in DOMAIN b => b.end_index >= 1

\* Shape of a batch file: batch_info and conversations are required and no
\* other top-level property is allowed.
conversationBatchSchema(c) ==
  /\ c.kind = "batch"
  /\ Fields(c) = {"batch_info", "conversations"}
  /\ batchInfoSchema(c.batch_info)
  /\ \A i \in 1..Len(c.conversations) :
       conversationItemSchema(c.conversations[i])

\* Shape of the manifest: the files map names the conversations list and the
\* thoughts entry, and total_conversations is a non-negative integer.
experienceMetadataSchema(c) ==
  /\ c.kind = "manifest"
  /\ {"summary", "files", "total_conversations"} \subseteq Fields(c)
  /\ c.total_conversations >= 0
  /\ DOMAIN c.files = {"conversations", "thoughts"}

validateExperienceMetadata(c) ==
  [valid |-> experienceMetadataSchema(c), warnings |-> {}]

\* Variant: only a surplus of records over the declared count is reported.
validateConversationBatch_SurplusOnly(c) ==
  LET ok == conversationBatchSchema(c)
  IN  [valid |-> ok,
       warnings |-> IF ok /\ Len(c.conversations) > c.batch_info.count
                    THEN {"Conversation count mismatch"} ELSE {}]

validateConversationBatch(c) ==
  LET ok == conversationBatchSchema(c)
  IN  [valid |-> ok,
       warnings |-> IF ok /\ Len(c.conversations) # c.batch_info.count
                    THEN {"Conversation count mismatch"} ELSE {}]

validateThoughts(c) ==
  [valid |-> c.kind # "null", warnings |-> {}]

validateFileContent(name, c) ==
  IF name = ManifestName THEN validateExperienceMetadata(c)
  ELSE IF IsConversationFile(name) THEN validateConversationBatch(c)
  ELSE IF name = ThoughtsName THEN validateThoughts(c)
  ELSE [valid |-> FALSE, warnings |-> {}]

\* ---------------------------------------------------------- file operations
\* Variant: the file is left in place.
deleteFile_KeepsFile(d, name, fault) == d

deleteFile(d, name, fault) ==
  IF name \in Listing(d) /\ fault # "unlink" THEN RemoveFile(d, name) ELSE d

\* Variant: an existing file is kept (exclusive create) and success reported.
writeJsonFile_KeepExisting(d, name, data, validate, fault) ==
  IF fault = "mkdir"
  THEN [success |-> FALSE, error |-> "StorageError", dir |-> d]
  ELSE LET d1 == ensureDirectory(d)
       IN  IF validate /\ ~validateFileContent(name, data).valid
           THEN [success |-> FALSE, error |-> "ValidationFailed", dir |-> d1]
           ELSE IF fault = "write"
           THEN [success |-> FALSE, error |-> "StorageError", dir |-> d1]
           ELSE [success |-> TRUE, error |-> "none",
                 dir |-> IF name \in Listing(d1) THEN d1
                         ELSE PutFile(d1, name, data)]

\* Variant: a failed write removes the file it was replacing.
writeJsonFile_RemoveOnFail(d, name, data, validate, fault) ==
  IF fault = "mkdir"
  THEN [success |-> FALSE, error |-> "StorageError", dir |-> d]
  ELSE LET d1 == ensureDirectory(d)
       IN  IF validate /\ ~validateFileContent(name, data).valid
           THEN [success |-> FALSE, error |-> "ValidationFailed", dir |-> d1]
           ELSE IF fault = "write"
           THEN [success |-> FALSE, error |-> "StorageError",
                 dir |-> RemoveFile(d1, name)]
           ELSE [success |-> TRUE, error |-> "none",
                 dir |-> PutFile(d1, name, data)]

writeJsonFile(d, name, data, validate, fault) ==
  IF fault = "mkdir"
  THEN [success |-> FALSE, error |-> "StorageError", dir |-> d]
  ELSE LET d1 == ensureDirectory(d)
       IN  IF validate /\ ~validateFileContent(name, data).valid
           THEN [success |-> FALSE, error |-> "ValidationFailed", dir |-> d1]
           ELSE IF fault = "write"
           THEN [success |-> FALSE, error |-> "StorageError", dir |-> d1]
           ELSE IF fault = "truncate"
           THEN [success |-> FALSE, error |-> "StorageError",
                 dir |-> PutFile(d1, name, Partial)]
           ELSE [success |-> TRUE, error |-> "none",
                 dir |-> PutFile(d1, name, data)]

\* join(directory, '') is the directory itself: it exists, and reading it as
\* a file throws, which readJsonFile catches.
readJsonFile(d, name, validate) ==
  IF name = EmptyName
  THEN [success |-> FALSE, data |-> NoData,
        error |-> IF d.exists THEN "ReadFailed" ELSE "FileDoesNotExist"]
  ELSE IF name \notin Listing(d)
  THEN [success |-> FALSE, data |-> NoData, error |-> "FileDoesNotExist"]
  ELSE IF d.files[name].kind = "partial"
  THEN [success |-> FALSE, data |-> NoData, error |-> "ReadFailed"]
  ELSE IF validate /\ ~validateFileContent(name, d.files[name]).valid
  THEN [success |-> FALSE, data |-> NoData, error |-> "ValidationFailed"]
  ELSE [success |-> TRUE, data |-> d.files[name], error |-> "none"]

readConversationBatch(d, name) == readJsonFile(d, name, TRUE)

readExperienceMetadata(d) == readJsonFile(d, ManifestName, TRUE)

\* Variant: a failed write of the manifest is reported as a success.
writeExperienceMetadata_ReportsSuccess(d, manifest, fault) ==
  [writeJsonFile(d, ManifestName, manifest, TRUE, fault)
     EXCEPT !.success = TRUE]

writeExperienceMetadata(d, manifest, fault) ==
  writeJsonFile(d, ManifestName, manifest, TRUE, fault)

writeConversationBatch(d, name, batch, fault) ==
  writeJsonFile(d, name, batch, TRUE, fault)

getDirectoryInfo(d) == IF d.exists THEN Listing(d) ELSE {}

\* ------------------------------------------------ Array.prototype.sort()
\* The default sort compares the names as strings; the names of batch files
\* differ only from the digits on, and '.' sorts before every digit.
DotCode == 0 - 1

NameKey(f) == f.digits \o <<DotCode>>

RECURSIVE LexLess(_, _)
LexLess(a, b) ==
  IF b = <<>> THEN FALSE
  ELSE IF a = <<>> THEN TRUE
  ELSE IF Head(a) # Head(b) THEN Head(a) < Head(b)
  ELSE LexLess(Tail(a), Tail(b))

RECURSIVE SortNames(_)
SortNames(S) ==
  IF S = {} THEN <<>>
  ELSE LET m == CHOOSE x \in S :
                  \A y \in S \ {x} : LexLess(NameKey(x), NameKey(y))
       IN  <<m>> \o SortNames(S \ {m})

Range(q) == {q[i] : i \in 1..Len(q)}

RECURSIVE SumSeq(_)
SumSeq(q) == IF q = <<>> THEN 0 ELSE Head(q) + SumSeq(Tail(q))

\* ------------------------------------------------------- get_export_status
NoResult ==
  [op |-> "none", sid |-> <<>>, dir |-> <<>>, bn |-> 0, recs |-> <<>>,
   summary |-> "none", fault |-> "none", ok |-> FALSE, error |-> "none",
   status |-> "none", next |-> 0, files |-> {}, valid |-> FALSE,
   manifest_valid |-> FALSE, semantic_valid |-> FALSE, missing |-> {},
   errors |-> {}, warnings |-> {}, file_validations |-> NoFiles,
   filter |-> 0, listed |-> {}, skipped |-> {}, export_id |-> <<>>]

\* f.match(/conversations_(\d+)\.json/) ? parseInt(match[1], 10) : 0
batchNumberOf(f) == IF f.digits # <<>> THEN ParseInt(f.digits) ELSE 0

Max(S) == CHOOSE x \in S : \A y \in S : y <= x

\* Variant: the batch files are counted.
nextBatchNumber_CountsFiles(files) ==
  LET conversationFiles == {f \in files : IsConversationFile(f)}
  IN  Cardinality(conversationFiles) + 1

\* Variant: the largest batch number itself is returned.
nextBatchNumber_OffByOne(files) ==
  LET conversationFiles == {f \in files : IsConversationFile(f)}
  IN  IF conversationFiles # {}
      THEN Max({0} \cup {batchNumberOf(f) : f \in conversationFiles})
      ELSE 1

nextBatchNumber(files) ==
  LET conversationFiles == {f \in files : IsConversationFile(f)}
  IN  IF conversationFiles # {}
      THEN Max({0} \cup {batchNumberOf(f) : f \in conversationFiles}) + 1
      ELSE 1

\* Variant: a missing directory is reported like an empty one.
getExportStatus_MissingAsEmpty(d) ==
  IF ManifestName \in Listing(d)
  THEN [status |-> "completed", files |-> Listing(d),
        next |-> CompletedSentinel]
  ELSE [status |-> IF Listing(d) # {} THEN "in_progress" ELSE "initializing",
        files |-> Listing(d), next |-> nextBatchNumber(Listing(d))]

\* Variant: a directory still holding summary.json is never completed.
getExportStatus_SummaryFirst(d) ==
  IF ~d.exists
  THEN [status |-> "not_found", files |-> {}, next |-> 1]
  ELSE IF ManifestName \in Listing(d) /\ SummaryName \notin Listing(d)
  THEN [status |-> "completed", files |-> Listing(d),
        next |-> CompletedSentinel]
  ELSE [status |-> IF Listing(d) # {} THEN "in_progress" ELSE "initializing",
        files |-> Listing(d), next |-> nextBatchNumber(Listing(d))]

getExportStatus(d) ==
  IF ~d.exists
  THEN [status |-> "not_found", files |-> {}, next |-> 1]
  ELSE IF ManifestName \in Listing(d)
  THEN [status |-> "completed", files |-> Listing(d),
        next |-> CompletedSentinel]
  ELSE [status |-> IF Listing(d) # {} THEN "in_progress" ELSE "initializing",
        files |-> Listing(d), next |-> nextBatchNumber(Listing(d))]

\* Calls in flight: each is at one of its awaits. A call that is not split
\* into its awaits runs as one step and leaves this record alone.
Writers == {"w1", "w2"}

Finalizer == "fin"

IdleCall ==
  [pc |-> "idle", bn |-> 0, recs |-> <<>>, ok |-> FALSE, error |-> "none",
   allFiles |-> {}, view |-> AbsentDir, initialData |-> NoData, order |-> 0]

NoCalls == [p \in Writers \cup {Finalizer} |-> IdleCall]

\* The memory of a process that has just started. issued counts the export
\* ids that uuidv4() has produced so far; it is not part of the memory.
NoSessions == << >>

NoManager == [activeSessions |-> NoSessions, issued |-> 0, restarted |-> FALSE]

Call(op, sid, fault) ==
  [NoResult EXCEPT !.op = op, !.sid = sid, !.fault = fault]

Fail(call, error) == [call EXCEPT !.ok = FALSE, !.error = error]

\* Variant: the session directory is made before it is looked at.
Status_MakesDirectory(sid) ==
  LET call == Call("status", sid, "none")
  IN  /\ pre' = fs
      /\ calls' = calls
      /\ manager' = manager
      /\ IF sid = <<>>
         THEN fs' = fs /\ last' = Fail(call, "ZodError")
         ELSE IF ~validateSessionId(sid)
         THEN /\ fs' = fs
              /\ last' = [Fail(call, "SecurityError")
                            EXCEPT !.status = "not_found"]
         ELSE LET r == getExportStatus(ensureDirectory(fs[sid]))
              IN  /\ fs' = [fs EXCEPT ![sid] = ensureDirectory(@)]
                  /\ last' = [call EXCEPT !.ok = TRUE, !.dir = sid,
                                          !.status = r.status,
                                          !.files = r.files, !.next = r.next]

Status(sid) ==
  LET call == Call("status", sid, "none")
  IN  /\ pre' = fs
      /\ calls' = calls
      /\ manager' = manager
      /\ fs' = fs
      /\ last' =
           IF sid = <<>> THEN Fail(call, "ZodError")
           ELSE IF ~validateSessionId(sid)
           THEN [Fail(call, "SecurityError") EXCEPT !.status = "not_found"]
           ELSE LET r == getExportStatus(fs[sid])
                IN  [call EXCEPT !.ok = TRUE, !.dir = sid,
                                 !.status = r.status, !.files = r.files,
                                 !.next = r.next]

\* --------------------------------------------- export_experience_conversations
makeBatch(bn, recs) ==
  [kind |-> "batch",
   batch_info |-> [batch_number |-> bn, count |-> Len(recs),
                   start_index |-> (bn - 1) * ConversationBatchSize + 1,
                   end_index |-> (bn - 1) * ConversationBatchSize + Len(recs)],
   conversations |-> recs]

\* Variant: the call needs a session held in memory, as the ExportManager's
\* exportConversationBatch does.
WriteBatch_NeedsSession(sid, bn, recs, fault) ==
  LET call == [Call("write_batch", sid, fault) EXCEPT !.bn = bn, !.recs = recs]
  IN  /\ pre' = fs
      /\ calls' = calls
      /\ manager' = manager
      /\ fs' = fs
      /\ last' = Fail(call, IF sid = <<>> THEN "ZodError"
                            ELSE "ExportSessionNotFound")

WriteBatch(sid, bn, recs, fault) ==
  LET call == [Call("write_batch", sid, fault) EXCEPT !.bn = bn, !.recs = recs]
  IN  /\ pre' = fs
      /\ calls' = calls
      /\ manager' = manager
      /\ IF sid = <<>>
         THEN fs' = fs /\ last' = Fail(call, "ZodError")
         ELSE IF ~validateSessionId(sid)
         THEN fs' = fs /\ last' = Fail(call, "SecurityError")
         ELSE LET w == writeConversationBatch(fs[sid], BatchFileName(bn),
                                              makeBatch(bn, recs), fault)
              IN  /\ fs' = [fs EXCEPT ![sid] = w.dir]
                  /\ last' = IF w.success
                             THEN [call EXCEPT !.ok = TRUE, !.dir = sid]
                             ELSE [Fail(call, w.error) EXCEPT !.dir = sid]

\* ------------------------------------------------- export_experience_thoughts
WriteThoughts(sid, thoughts, fault) ==
  LET call == [Call("write_thoughts", sid, fault) EXCEPT !.summary = thoughts]
  IN  /\ pre' = fs
      /\ calls' = calls
      /\ manager' = manager
      /\ IF sid = <<>>
         THEN fs' = fs /\ last' = Fail(call, "ZodError")
         ELSE IF ~validateSessionId(sid)
         THEN fs' = fs /\ last' = Fail(call, "SecurityError")
         ELSE LET w == writeJsonFile(fs[sid], ThoughtsName,
                                     [kind |-> "thoughts", data |-> thoughts],
                                     FALSE, fault)
              IN  /\ fs' = [fs EXCEPT ![sid] = w.dir]
                  /\ last' = IF w.success
                             THEN [call EXCEPT !.ok = TRUE, !.dir = sid]
                             ELSE [Fail(call, w.error) EXCEPT !.dir = sid]

\* ----------------------------------------------------- export_experience_init
FreshUuids == {u \in Uuids : ~fs[u].exists}

uuidv4 == CHOOSE u \in FreshUuids : \A v \in FreshUuids : Len(u) <= Len(v)

InitExport(sid, summary, fault) ==
  LET call == [Call("init", sid, fault) EXCEPT !.summary = summary]
  IN  /\ sid = <<>> => FreshUuids # {}
      /\ pre' = fs
      /\ calls' = calls
      /\ manager' = manager
      /\ LET session_id == IF sid = <<>> THEN uuidv4 ELSE sid
         IN  IF ~validateSessionId(session_id)
             THEN fs' = fs /\ last' = Fail(call, "SecurityError")
             ELSE IF fault = "mkdir"
             THEN fs' = fs /\ last' = Fail(call, "StorageError")
             ELSE LET w == writeJsonFile(ensureDirectory(fs[session_id]),
                                         SummaryName,
                                         [kind |-> "summary", data |-> summary,
                                          session_id |-> session_id],
                                         FALSE, fault)
                  IN  /\ fs' = [fs EXCEPT ![session_id] = w.dir]
                      /\ last' =
                           IF w.success
                           THEN [call EXCEPT !.ok = TRUE, !.dir = session_id]
                           ELSE [Fail(call, w.error) EXCEPT !.dir = session_id]

\* ------------------------------------------------- export_experience_finalize
\* Step 2: the batch files of the listing, sorted.
conversationFilesOf(d) ==
  SortNames({f \in Listing(d) : IsConversationFile(f)})

\* Step 3: a batch that reads and validates adds its conversations; any
\* other batch file is passed over.
\* Variant: every readable batch counts for one.
batchContribution_CountsFiles(d, file) ==
  LET batchResult == readConversationBatch(d, file)
  IN  IF batchResult.success THEN 1 ELSE 0

batchContribution(d, file) ==
  LET batchResult == readConversationBatch(d, file)
  IN  IF batchResult.success THEN Len(batchResult.data.conversations) ELSE 0

totalConversations(d) ==
  LET conversationFiles == conversationFilesOf(d)
  IN  SumSeq([i \in 1..Len(conversationFiles) |->
                batchContribution(d, conversationFiles[i])])

\* Variant: the thoughts entry is always filled in.
buildManifest_AlwaysThoughts(d, sid, initialData) ==
  [kind |-> "manifest",
   summary |-> initialData.data,
   files |-> [conversations |-> conversationFilesOf(d),
              thoughts |-> ThoughtsName],
   total_conversations |-> totalConversations(d),
   session_id |-> sid]

\* Step 4: the manifest built from summary.json and the directory scan.
buildManifest(d, sid, initialData) ==
  [kind |-> "manifest",
   summary |-> initialData.data,
   files |-> [conversations |-> conversationFilesOf(d),
              thoughts |-> IF ThoughtsName \in Listing(d)
                           THEN ThoughtsName ELSE EmptyName],
   total_conversations |-> totalConversations(d),
   session_id |-> sid]

\* Variant: a missing summary.json is replaced by a default record.
readInitialData_Default(d) ==
  IF readJsonFile(d, SummaryName, FALSE).success
  THEN readJsonFile(d, SummaryName, FALSE)
  ELSE [success |-> TRUE, error |-> "none",
        data |-> [kind |-> "summary", data |-> "default",
                  session_id |-> <<>>]]

\* Variant: summary.json is read with schema validation.
readInitialData_Validated(d) == readJsonFile(d, SummaryName, TRUE)

\* Step 1: summary.json, read without schema validation.
readInitialData(d) == readJsonFile(d, SummaryName, FALSE)

Finalize(sid, fault) ==
  LET call == Call("finalize", sid, fault)
  IN  /\ pre' = fs
      /\ calls' = calls
      /\ manager' = manager
      /\ IF sid = <<>>
         THEN fs' = fs /\ last' = Fail(call, "ZodError")
         ELSE IF ~validateSessionId(sid)
         THEN fs' = fs /\ last' = Fail(call, "SecurityError")
         ELSE LET d == fs[sid]
                  initialDataResult == readInitialData(d)
              IN  IF ~initialDataResult.success
                  THEN fs' = fs /\ last' = [Fail(call, "StagingMissing")
                                              EXCEPT !.dir = sid]
                  ELSE LET manifest ==
                             buildManifest(d, sid, initialDataResult.data)
                           writeResult ==
                             writeExperienceMetadata(d, manifest, fault)
                           cleaned ==
                             deleteFile(writeResult.dir, SummaryName, fault)
                       IN  IF ~writeResult.success
                           THEN /\ fs' = [fs EXCEPT ![sid] = writeResult.dir]
                                /\ last' = [Fail(call, "ManifestWriteFailed")
                                              EXCEPT !.dir = sid]
                           ELSE IF fault = "crash"
                           THEN /\ fs' = [fs EXCEPT ![sid] = writeResult.dir]
                                /\ last' = [Fail(call, "Crashed")
                                              EXCEPT !.dir = sid]
                           ELSE /\ fs' = [fs EXCEPT ![sid] = cleaned]
                                /\ last' = [call EXCEPT
                                              !.ok = TRUE, !.dir = sid,
                                              !.files = getDirectoryInfo(cleaned)]

\* ---------------------------------------------------------- validate_experience
\* The files the manifest claims: the batch list and the thoughts entry.
expectedFilesOf(manifest) ==
  Range(manifest.files.conversations) \cup {manifest.files.thoughts}

\* Presence check: the claimed files that were not supplied.
missingFilesOf(manifest, files) ==
  {f \in expectedFilesOf(manifest) : f \notin DOMAIN files}

\* Cross-file check: the records of the listed batches that were supplied.
suppliedTotal(manifest, files) ==
  LET names == manifest.files.conversations
  IN  SumSeq([i \in 1..Len(names) |->
                IF names[i] \in DOMAIN files
                THEN Len(files[names[i]].conversations) ELSE 0])

\* Variant: the supplied total is compared with the number of listed files.
crossFileWarnings_CountsNames(manifest, files) ==
  IF suppliedTotal(manifest, files) # Len(manifest.files.conversations)
  THEN {"Total conversation count mismatch"} ELSE {}

crossFileWarnings(manifest, files) ==
  IF suppliedTotal(manifest, files) # manifest.total_conversations
  THEN {"Total conversation count mismatch"} ELSE {}

\* The property reads that raise a TypeError: manifest.files.conversations of
\* a manifest without them, and conversations.length of a supplied, listed
\* batch that has no conversations.
validationThrows(manifest, files) ==
  \/ "files" \notin Fields(manifest)
  \/ "conversations" \notin DOMAIN manifest.files
  \/ /\ validateExperienceMetadata(manifest).valid
     /\ \E f \in Range(manifest.files.conversations) :
          f \in DOMAIN files /\ "conversations" \notin Fields(files[f])

\* The report handed to the caller when validation raises an error.
ThrownReport(message) ==
  [threw |-> TRUE, valid |-> FALSE, manifest_valid |-> FALSE,
   semantic_valid |-> FALSE, file_validations |-> NoFiles,
   missing_files |-> {}, errors |-> {message}, warnings |-> {}]

\* Variant: a file with warnings counts as an invalid file.
validateExperienceDirectory_WarningsFail(manifest, files) ==
  IF validationThrows(manifest, files) THEN ThrownReport("TypeError")
  ELSE
  LET manifestValidation == validateExperienceMetadata(manifest)
      missing_files == missingFilesOf(manifest, files)
      file_validations ==
        [f \in DOMAIN files |-> validateFileContent(f, files[f])]
      invalidFiles == {f \in DOMAIN files :
                         \/ ~file_validations[f].valid
                         \/ file_validations[f].warnings # {}}
      fileWarnings ==
        UNION {file_validations[f].warnings : f \in DOMAIN files}
      crossWarnings ==
        IF manifestValidation.valid THEN crossFileWarnings(manifest, files)
        ELSE {}
  IN  [threw |-> FALSE,
       valid |-> manifestValidation.valid /\ missing_files = {}
                   /\ invalidFiles = {},
       manifest_valid |-> manifestValidation.valid,
       semantic_valid |-> invalidFiles = {},
       file_validations |-> file_validations,
       missing_files |-> missing_files,
       errors |-> IF manifestValidation.valid THEN {} ELSE {"manifest schema"},
       warnings |-> fileWarnings \cup crossWarnings]

validateExperienceDirectory(manifest, files) ==
  IF validationThrows(manifest, files) THEN ThrownReport("TypeError")
  ELSE
  LET manifestValidation == validateExperienceMetadata(manifest)
      missing_files == missingFilesOf(manifest, files)
      file_validations ==
        [f \in DOMAIN files |-> validateFileContent(f, files[f])]
      invalidFiles == {f \in DOMAIN files : ~file_validations[f].valid}
      fileWarnings ==
        UNION {file_validations[f].warnings : f \in DOMAIN files}
      crossWarnings ==
        IF manifestValidation.valid THEN crossFileWarnings(manifest, files)
        ELSE {}
  IN  [threw |-> FALSE,
       valid |-> manifestValidation.valid /\ missing_files = {}
                   /\ invalidFiles = {},
       manifest_valid |-> manifestValidation.valid,
       semantic_valid |-> invalidFiles = {},
       file_validations |-> file_validations,
       missing_files |-> missing_files,
       errors |-> IF manifestValidation.valid THEN {} ELSE {"manifest schema"},
       warnings |-> fileWarnings \cup crossWarnings]

\* The files named by the manifest that read as JSON, keyed by name.
readExpectedFiles(d, manifest) ==
  LET readable == {f \in expectedFilesOf(manifest) :
                     readJsonFile(d, f, FALSE).success}
  IN  [f \in readable |-> readJsonFile(d, f, FALSE).data]

\* An error raised during the validation is caught and returned as a failure.
validateExperienceDirectoryFiles(d) ==
  LET manifestResult == readExperienceMetadata(d)
  IN  IF ~manifestResult.success
      THEN [success |-> FALSE, error |-> "ManifestReadFailed",
            data |-> ThrownReport("Failed to read manifest")]
      ELSE LET report == validateExperienceDirectory(
                           manifestResult.data,
                           readExpectedFiles(d, manifestResult.data))
           IN  IF report.threw
               THEN [success |-> FALSE, error |-> "TypeError", data |-> report]
               ELSE [success |-> TRUE, error |-> "none", data |-> report]

\* Both the report and the error response carry the same fields.
Reported(call, report) ==
  [call EXCEPT !.valid = report.valid,
               !.manifest_valid = report.manifest_valid,
               !.semantic_valid = report.semantic_valid,
               !.file_validations = report.file_validations,
               !.missing = report.missing_files,
               !.errors = report.errors,
               !.warnings = report.warnings]

Validate(dirId) ==
  LET call == [Call("validate", dirId, "none") EXCEPT !.dir = dirId]
      result == validateExperienceDirectoryFiles(fs[dirId])
  IN  /\ pre' = fs
      /\ calls' = calls
      /\ manager' = manager
      /\ fs' = fs
      /\ last' =
           IF ~result.success
           THEN Reported(Fail(call, result.error), result.data)
           ELSE [Reported(call, result.data) EXCEPT !.ok = TRUE]

\* ------------------------------------------------------------ list_experiences
\* The subdirectories of the base directory; each session directory is one.
subdirectoriesOf(root) == {d \in DOMAIN root : root[d].exists}

\* A subdirectory whose manifest reads and validates yields its summary; any
\* other subdirectory yields a warning.
\* Variant: a subdirectory without a manifest is described from summary.json.
listExperienceDirectories_FromSummary(root) ==
  LET directories == subdirectoriesOf(root)
      good == {d \in directories :
                 \/ readExperienceMetadata(root[d]).success
                 \/ readJsonFile(root[d], SummaryName, FALSE).success}
  IN  [success |-> TRUE,
       data |-> [d \in good |->
                   IF readExperienceMetadata(root[d]).success
                   THEN readExperienceMetadata(root[d]).data
                   ELSE [kind |-> "manifest", total_conversations |-> 0]],
       warnings |-> IF directories = {} THEN {}
                    ELSE directories \ good]

listExperienceDirectories(root) ==
  LET directories == subdirectoriesOf(root)
      good == {d \in directories : readExperienceMetadata(root[d]).success}
  IN  [success |-> TRUE,
       data |-> [d \in good |-> readExperienceMetadata(root[d]).data],
       warnings |-> IF directories = {} THEN {}
                    ELSE directories \ good]

\* filter.min_conversations, the one filter the model carries.
applyFilters(directories, filter) ==
  {d \in DOMAIN directories :
     ~(directories[d].total_conversations < filter)}

\* The response is built from result.data alone: it has the fields success,
\* experience_directories and directory_summaries.
ListExperiences(filter) ==
  LET call == [Call("list", <<>>, "none") EXCEPT !.filter = filter]
      result == listExperienceDirectories(fs)
  IN  /\ pre' = fs
      /\ calls' = calls
      /\ manager' = manager
      /\ fs' = fs
      /\ last' = [call EXCEPT !.ok = TRUE,
                              !.listed = applyFilters(result.data, filter)]

\* ------------------------------------------------------------ specification
WriteFaults == {"none", "mkdir", "write"}

FinalizeFaults == {"none", "mkdir", "write", "unlink", "crash"}

\* Values of filter.min_conversations; 0 leaves every summary in.
Filters == {0, 1}

\* directory_path is any non-empty string; <<".", ".">> is a path that leaves
\* the base directory.
ValidateTargets == {<<"s">>, <<".", ".">>} \cup Uuids

Init ==
  /\ fs = [d \in DirIds |-> AbsentDir]
  /\ pre = fs
  /\ last = NoResult
  /\ calls = NoCalls
  /\ manager = NoManager

Next ==
  \/ \E sid \in SessionIds, summary \in Summaries, fault \in WriteFaults :
       /\ sid \in ProbeIds => fault = "none"
       /\ InitExport(sid, summary, fault)
  \/ \E sid \in SessionIds, bn \in BatchNumbers, recs \in RecordLists,
        fault \in WriteFaults :
       /\ sid \in ProbeIds => (bn = 1 /\ recs = <<>> /\ fault = "none")
       /\ WriteBatch(sid, bn, recs, fault)
  \/ \E sid \in SessionIds, thoughts \in ThoughtsInputs, fault \in WriteFaults :
       /\ sid \in ProbeIds => fault = "none"
       /\ WriteThoughts(sid, thoughts, fault)
  \/ \E sid \in SessionIds, fault \in FinalizeFaults :
       /\ sid \in ProbeIds => fault = "none"
       /\ Finalize(sid, fault)
  \/ \E sid \in SessionIds : Status(sid)
  \/ \E dirId \in ValidateTargets : Validate(dirId)
  \/ \E filter \in Filters : ListExperiences(filter)

Spec == Init /\ [][Next]_vars

\* ------------------------------------------- specification over directories
\* validate_experience and list_experiences read directories they did not
\* write: what an export left behind, a write that failed half way, or files
\* edited or copied afterwards.  DirSpec starts from such a directory for the
\* session "s", next to a second session that is absent or completed, and
\* runs the reading tools, finalize and the validation function on it.
MaxTotal == 2

Record1 == [user_input |-> "q1", ai_response |-> "a1"]

Batch1 == makeBatch(1, <<Record1>>)

\* Contents found under the name conversations_001.json.
BatchInputs ==
  { Batch1,
    [Batch1 EXCEPT !.batch_info.count = 2],
    [Batch1 EXCEPT !.batch_info.count = 0],
    [kind |-> "batch", batch_info |-> [batch_number |-> 1, count |-> 0],
     conversations |-> <<>>],
    [kind |-> "batch", batch_info |-> Batch1.batch_info,
     conversations |-> Batch1.conversations, note |-> "n"],
    [Batch1 EXCEPT !.batch_info =
       [batch_number |-> 1, count |-> 1, checksum |-> "c"]],
    [Batch1 EXCEPT !.conversations =
       <<[user_input |-> "q1", ai_response |-> "a1", confidence |-> "c"]>>],
    [Batch1 EXCEPT !.conversations = <<[user_input |-> "q1"]>>],
    [kind |-> "batch", batch_info |-> Batch1.batch_info],
    Partial }

\* Contents found under the name conversations_002.json.
SecondBatchInputs == {makeBatch(2, recs) : recs \in RecordLists}

ThoughtsFile == [kind |-> "thoughts", data |-> "t1"]

SummaryFile ==
  [kind |-> "summary", data |-> "sumA", session_id |-> <<"s">>]

ManifestFor(names, thoughts, total) ==
  [kind |-> "manifest", summary |-> "sumA",
   files |-> [conversations |-> names, thoughts |-> thoughts],
   total_conversations |-> total, session_id |-> <<"s">>]

Manifest1 == ManifestFor(<<BatchFileName(1)>>, ThoughtsName, 1)

\* Contents found under the name manifest.json.
ManifestInputs ==
  { ManifestFor(names, thoughts, total) :
      names \in {<<BatchFileName(1)>>, <<BatchFileName(1), BatchFileName(2)>>},
      thoughts \in {ThoughtsName, EmptyName},
      total \in 0..MaxTotal }
  \cup
  { [kind |-> "manifest", summary |-> "sumA", files |-> Manifest1.files,
     session_id |-> <<"s">>],
    [kind |-> "manifest", summary |-> "sumA", total_conversations |-> 1,
     session_id |-> <<"s">>],
    [kind |-> "manifest", summary |-> "sumA", files |-> Manifest1.files,
     total_conversations |-> 1, session_id |-> <<"s">>, platform |-> "p"] }

\* The directory holding the given contents; Absent stands for no file.
Absent == [kind |-> "absent"]

DirectoryOf(contents) ==
  [exists |-> TRUE,
   files |-> [f \in {g \in DOMAIN contents : contents[g] # Absent}
                |-> contents[f]]]

SuppliedDirectories ==
  { DirectoryOf([g \in {ManifestName, BatchFileName(1), BatchFileName(2),
                        ThoughtsName, SummaryName} |->
                   IF g = ManifestName THEN m
                   ELSE IF g = BatchFileName(1) THEN b1
                   ELSE IF g = BatchFileName(2) THEN b2
                   ELSE IF g = ThoughtsName THEN t
                   ELSE sm]) :
      m \in ManifestInputs \cup {Absent},
      b1 \in BatchInputs \cup {Absent},
      b2 \in SecondBatchInputs \cup {Absent},
      t \in {ThoughtsFile, Absent},
      sm \in {SummaryFile, Absent} }

\* The other session: absent, or completed with one batch.
OtherDirectories ==
  { AbsentDir,
    DirectoryOf([g \in {ManifestName, BatchFileName(1)} |->
                   IF g = ManifestName
                   THEN ManifestFor(<<BatchFileName(1)>>, EmptyName, 1)
                   ELSE Batch1]) }

\* The validation function applied to the manifest of a directory and to
\* those of its other files that parse as JSON.
suppliedFilesOf(d) ==
  [f \in {g \in Listing(d) \ {ManifestName, SummaryName} :
            d.files[g].kind # "partial"} |-> d.files[f]]

CheckDirectory(dirId) ==
  LET call == [Call("check", dirId, "none") EXCEPT !.dir = dirId]
      report == validateExperienceDirectory(fs[dirId].files[ManifestName],
                                            suppliedFilesOf(fs[dirId]))
  IN  /\ ManifestName \in Listing(fs[dirId])
      /\ fs[dirId].files[ManifestName].kind # "partial"
      /\ pre' = fs
      /\ calls' = calls
      /\ manager' = manager
      /\ fs' = fs
      /\ last' = IF report.threw
                 THEN Reported(Fail(call, "TypeError"), report)
                 ELSE [Reported(call, report) EXCEPT !.ok = TRUE]

DirInit ==
  /\ \E d \in SuppliedDirectories, o \in OtherDirectories :
       fs = [i \in DirIds |-> IF i = <<"s">> THEN d
                              ELSE IF i = Uuid(1) THEN o ELSE AbsentDir]
  /\ pre = fs
  /\ last = NoResult
  /\ calls = NoCalls
  /\ manager = NoManager

DirNext ==
  \/ Validate(<<"s">>)
  \/ CheckDirectory(<<"s">>)
  \/ Finalize(<<"s">>, "none")
  \/ Status(<<"s">>)
  \/ \E filter \in Filters : ListExperiences(filter)

DirSpec == DirInit /\ [][DirNext]_vars

\* --------------------------------------- specification with wide batch numbers
\* The first batch number whose decimal form is wider than the padding, the
\* last one that fits, and batch 1: an export of the session "s" that leaves
\* gaps in the numbering and passes the padding width. The calls come one
\* after the other and no storage fault occurs.
FirstWideBatch == Radix ^ PadWidth

WideBatchNumbers == {1, FirstWideBatch - 1, FirstWideBatch}

WideInit ==
  /\ fs = [d \in DirIds |-> AbsentDir]
  /\ pre = fs
  /\ last = NoResult
  /\ calls = NoCalls
  /\ manager = NoManager

WideNext ==
  \/ \E summary \in Summaries : InitExport(<<"s">>, summary, "none")
  \/ \E bn \in WideBatchNumbers, recs \in RecordLists :
       WriteBatch(<<"s">>, bn, recs, "none")
  \/ \E thoughts \in ThoughtsInputs : WriteThoughts(<<"s">>, thoughts, "none")
  \/ Finalize(<<"s">>, "none")
  \/ Status(<<"s">>)

WideSpec == WideInit /\ [][WideNext]_vars

\* ------------------------------------------ calls interleaved at their awaits
\* Two export_experience_conversations calls and one export_experience_finalize
\* call on the session "s"; each advances from one await to the next, and the
\* steps of different calls interleave freely.
RaceSession == <<"s">>

\* Length of the JSON text of a file. Two batches with the same batch number
\* differ in their records only, and each record adds to the text; a file
\* just opened for writing is empty.
fileLength(c) ==
  IF c.kind = "batch" THEN 1 + Len(c.conversations)
  ELSE IF "length" \in DOMAIN c THEN c.length
  ELSE 0

\* fs.writeFile opens the path with the flag 'w': the file is created, or
\* truncated to length zero.
openTruncate(d, name) == PutFile(d, name, Partial)

\* fs.writeFile then writes the text from offset zero of its own descriptor.
\* Bytes that another writer put beyond the end of this text stay in the file,
\* and the result does not parse.
writeAtStart(d, name, data) ==
  LET old == d.files[name]
  IN  PutFile(d, name,
              IF fileLength(old) > fileLength(data)
              THEN [kind |-> "partial", head |-> data,
                    length |-> fileLength(old)]
              ELSE data)

\* The number of writes that have completed.
writesCompleted == Cardinality({p \in Writers : calls[p].order > 0})

Advance(p, call) ==
  /\ calls' = [calls EXCEPT ![p] = call]
  /\ UNCHANGED <<pre, last, manager>>

\* The arguments are parsed and the batch object is built.
BatchStart(p, bn, recs) ==
  /\ calls[p].pc = "idle"
  /\ fs' = fs
  /\ Advance(p, [calls[p] EXCEPT !.pc = "ensure", !.bn = bn, !.recs = recs])

\* writeJsonFile: the directory is ensured and the batch validated.
BatchEnsure(p) ==
  LET call == calls[p]
      name == BatchFileName(call.bn)
  IN  /\ call.pc = "ensure"
      /\ fs' = [fs EXCEPT ![RaceSession] = ensureDirectory(@)]
      /\ Advance(p, IF validateFileContent(name,
                                           makeBatch(call.bn, call.recs)).valid
                    THEN [call EXCEPT !.pc = "open"]
                    ELSE [call EXCEPT !.pc = "done",
                                      !.error = "ValidationFailed"])

BatchOpen(p) ==
  LET call == calls[p]
  IN  /\ call.pc = "open"
      /\ fs' = [fs EXCEPT ![RaceSession] =
                            openTruncate(@, BatchFileName(call.bn))]
      /\ Advance(p, [call EXCEPT !.pc = "write"])

BatchWrite(p) ==
  LET call == calls[p]
  IN  /\ call.pc = "write"
      /\ fs' = [fs EXCEPT ![RaceSession] =
                            writeAtStart(@, BatchFileName(call.bn),
                                         makeBatch(call.bn, call.recs))]
      /\ Advance(p, [call EXCEPT !.pc = "stat",
                                 !.order = writesCompleted + 1])

\* fs.stat, and the success response.
BatchReturn(p) ==
  LET call == calls[p]
  IN  /\ call.pc = "stat"
      /\ fs' = fs
      /\ Advance(p, [call EXCEPT !.pc = "done", !.ok = TRUE])

\* Step 1 of finalize: summary.json is read.
FinalizeStart ==
  LET call == calls[Finalizer]
      initialDataResult == readInitialData(fs[RaceSession])
  IN  /\ call.pc = "idle"
      /\ fs' = fs
      /\ Advance(Finalizer,
                 IF initialDataResult.success
                 THEN [call EXCEPT !.pc = "scan",
                                   !.initialData = initialDataResult.data]
                 ELSE [call EXCEPT !.pc = "done",
                                   !.error = "StagingMissing"])

\* Step 2: fs.readdir.
FinalizeScan ==
  LET call == calls[Finalizer]
  IN  /\ call.pc = "scan"
      /\ fs' = fs
      /\ Advance(Finalizer, [call EXCEPT !.pc = "count",
                                         !.allFiles = Listing(fs[RaceSession])])

\* Variant: the directory is listed again when the batches are read.
scannedView_Rescan(allFiles, d) == d

\* Step 3 reads the files that step 2 listed, as they are by then.
scannedView(allFiles, d) ==
  [exists |-> TRUE,
   files |-> [n \in allFiles \cap Listing(d) |-> d.files[n]]]

FinalizeCount ==
  LET call == calls[Finalizer]
  IN  /\ call.pc = "count"
      /\ fs' = fs
      /\ Advance(Finalizer,
                 [call EXCEPT !.pc = "write",
                              !.view = scannedView(call.allFiles,
                                                   fs[RaceSession])])

\* Steps 4 and 5: the manifest is built from what steps 1 to 3 saw, and
\* written.
FinalizeWrite ==
  LET call == calls[Finalizer]
      manifest == buildManifest(call.view, RaceSession, call.initialData)
      writeResult == writeExperienceMetadata(fs[RaceSession], manifest, "none")
  IN  /\ call.pc = "write"
      /\ fs' = [fs EXCEPT ![RaceSession] = writeResult.dir]
      /\ Advance(Finalizer,
                 IF writeResult.success
                 THEN [call EXCEPT !.pc = "cleanup"]
                 ELSE [call EXCEPT !.pc = "done",
                                   !.error = "ManifestWriteFailed"])

\* Steps 6 and 7: summary.json is removed and the response built.
FinalizeCleanup ==
  LET call == calls[Finalizer]
  IN  /\ call.pc = "cleanup"
      /\ fs' = [fs EXCEPT ![RaceSession] = deleteFile(@, SummaryName, "none")]
      /\ Advance(Finalizer, [call EXCEPT !.pc = "done", !.ok = TRUE])

RaceInit ==
  /\ fs = [d \in DirIds |-> AbsentDir]
  /\ pre = fs
  /\ last = NoResult
  /\ calls = NoCalls
  /\ manager = NoManager

RaceNext ==
  \/ \E summary \in Summaries : InitExport(RaceSession, summary, "none")
  \/ \E p \in Writers, bn \in BatchNumbers, recs \in RecordLists :
       BatchStart(p, bn, recs)
  \/ \E p \in Writers : BatchEnsure(p)
  \/ \E p \in Writers : BatchOpen(p)
  \/ \E p \in Writers : BatchWrite(p)
  \/ \E p \in Writers : BatchReturn(p)
  \/ FinalizeStart
  \/ FinalizeScan
  \/ FinalizeCount
  \/ FinalizeWrite
  \/ FinalizeCleanup

RaceSpec == RaceInit /\ [][RaceNext]_vars

\* ------------------------------------------------------------ ExportManager
\* The stateful export of server/exportManager.ts. It keeps its sessions in
\* the map activeSessions and validates what it writes against the schemas of
\* types/schemas.ts, whose manifest names the component files insights.json,
\* patterns.json and preferences.json.
MaxExports == 1

MaxCreated == 2

\* The k-th export id produced by uuidv4().
ExportId(k) == [i \in 1..k |-> "x"]

ExportIds == {ExportId(k) : k \in 1..MaxExports}

\* An id the manager never produced.
UnknownExportId == <<"?">>

ManagerSessionIds == {<<"s">>}

\* join(output_directory, `experience_${session_id}`), with an output
\* directory other than the base directory of the tools.
experienceDirectoryOf(sid) == <<"experience_">> \o sid

ManagerDirIds == {experienceDirectoryOf(sid) : sid \in ManagerSessionIds}

InsightsName == [stem |-> "insights", digits |-> <<>>]
PatternsName == [stem |-> "patterns", digits |-> <<>>]
PreferencesName == [stem |-> "preferences", digits |-> <<>>]

\* experienceMetadataSchema of types/schemas.ts.
componentMetadataSchema(c) ==
  /\ c.kind = "manifest"
  /\ {"mcp_version", "ai_name", "ai_context", "experience_summary",
      "experience_flow", "files", "main_topics", "total_conversations"}
       \subseteq Fields(c)
  /\ DOMAIN c.files = {"conversations", "insights", "patterns", "preferences"}
  /\ c.total_conversations >= 0

\* insightsSchema: the one property insights, each item with topic, insight
\* and timestamp.
insightsSchema(c) ==
  /\ c.kind = "insights"
  /\ Fields(c) = {"insights"}
  /\ \A i \in 1..Len(c.insights) :
       {"topic", "insight", "timestamp"} \subseteq DOMAIN c.insights[i]

\* validateFileContent of utils/validation.ts, by file name.
validateComponentFileContent(name, content) ==
  IF name = ManifestName THEN componentMetadataSchema(content)
  ELSE IF IsConversationFile(name) THEN conversationBatchSchema(content)
  ELSE IF name = InsightsName THEN insightsSchema(content)
  ELSE FALSE

\* writeJsonFile with validation, as the manager's write helpers call it.
writeComponentFile(d, name, data, fault) ==
  IF fault = "mkdir"
  THEN [success |-> FALSE, error |-> "StorageError", dir |-> d]
  ELSE LET d1 == ensureDirectory(d)
       IN  IF ~validateComponentFileContent(name, data)
           THEN [success |-> FALSE, error |-> "ValidationFailed", dir |-> d1]
           ELSE IF fault = "write"
           THEN [success |-> FALSE, error |-> "StorageError", dir |-> d1]
           ELSE [success |-> TRUE, error |-> "none",
                 dir |-> PutFile(d1, name, data)]

Insight1 == [topic |-> "t", insight |-> "i", timestamp |-> "ts"]

InsightLists == { <<>>, <<Insight1>>, <<[topic |-> "t", insight |-> "i"]>> }

ManagerFaults == {"none", "write"}

\* params.batch_number and params.conversations_batch
ManagerBatchNumbers == {1, 2}

ManagerRecordLists == { <<>>, <<CHOOSE r \in RecordIds : TRUE>> }

\* Map.prototype.set, Map.prototype.delete
setSession(sessions, exportId, session) ==
  [e \in DOMAIN sessions \cup {exportId} |->
     IF e = exportId THEN session ELSE sessions[e]]

\* Variant: the session stays in the map.
deleteSession_Keeps(sessions, exportId) == sessions

deleteSession(sessions, exportId) ==
  [e \in DOMAIN sessions \ {exportId} |-> sessions[e]]

ManagerCall(op, exportId, fault) ==
  [Call(op, <<>>, fault) EXCEPT !.export_id = exportId]

SessionNotFound(call) ==
  /\ fs' = fs
  /\ manager' = manager
  /\ last' = Fail(call, "ExportSessionNotFound")

initializeExport(sid, fault) ==
  LET exportId == ExportId(manager.issued + 1)
      directoryPath == experienceDirectoryOf(sid)
      call == [ManagerCall("initializeExport", exportId, fault)
                 EXCEPT !.sid = sid, !.dir = directoryPath]
      session == [directory_path |-> directoryPath, session_id |-> sid,
                  status |-> "initializing", created_files |-> <<>>]
  IN  /\ manager.issued < MaxExports
      /\ pre' = fs
      /\ calls' = calls
      /\ IF fault = "mkdir"
         THEN /\ fs' = fs
              /\ manager' = [manager EXCEPT !.issued = @ + 1]
              /\ last' = Fail(call, "StorageError")
         ELSE /\ fs' = [fs EXCEPT ![directoryPath] = ensureDirectory(@)]
              /\ manager' = [manager EXCEPT
                               !.issued = @ + 1,
                               !.activeSessions =
                                 setSession(@, exportId, session)]
              /\ last' = [call EXCEPT !.ok = TRUE]

exportConversationBatch(exportId, bn, recs, fault) ==
  LET call == [ManagerCall("exportConversationBatch", exportId, fault)
                 EXCEPT !.bn = bn, !.recs = recs]
  IN  /\ pre' = fs
      /\ calls' = calls
      /\ IF exportId \notin DOMAIN manager.activeSessions
         THEN SessionNotFound(call)
         ELSE LET session == [manager.activeSessions[exportId]
                                EXCEPT !.status = "in_progress"]
                  filename == BatchFileName(bn)
                  writeResult ==
                    writeComponentFile(fs[session.directory_path], filename,
                                       makeBatch(bn, recs), fault)
              IN  /\ Len(session.created_files) < MaxCreated
                  /\ fs' = [fs EXCEPT ![session.directory_path] =
                                        writeResult.dir]
                  /\ IF writeResult.success
                     THEN /\ manager' =
                               [manager EXCEPT !.activeSessions[exportId] =
                                  [session EXCEPT !.created_files =
                                                    Append(@, filename)]]
                          /\ last' = [call EXCEPT !.ok = TRUE,
                                        !.dir = session.directory_path]
                     ELSE /\ manager' =
                               [manager EXCEPT !.activeSessions[exportId] =
                                                 session]
                          /\ last' = [Fail(call, writeResult.error)
                                        EXCEPT !.dir = session.directory_path]

\* exportInsights; exportPatterns and exportPreferences run the same
\* exportComponent with their own file name.
exportInsights(exportId, insights, fault) ==
  LET call == ManagerCall("exportInsights", exportId, fault)
  IN  /\ pre' = fs
      /\ calls' = calls
      /\ IF exportId \notin DOMAIN manager.activeSessions
         THEN SessionNotFound(call)
         ELSE LET session == manager.activeSessions[exportId]
                  writeResult ==
                    writeComponentFile(fs[session.directory_path],
                                       InsightsName,
                                       [kind |-> "insights",
                                        insights |-> insights], fault)
              IN  /\ Len(session.created_files) < MaxCreated
                  /\ fs' = [fs EXCEPT ![session.directory_path] =
                                        writeResult.dir]
                  /\ IF writeResult.success
                     THEN /\ manager' =
                               [manager EXCEPT !.activeSessions[exportId] =
                                  [session EXCEPT !.created_files =
                                                    Append(@, InsightsName)]]
                          /\ last' = [call EXCEPT !.ok = TRUE,
                                        !.dir = session.directory_path]
                     ELSE /\ manager' = manager
                          /\ last' = [Fail(call, writeResult.error)
                                        EXCEPT !.dir = session.directory_path]

\* created_files.filter(f => f.startsWith('conversations_'))
createdConversationFiles(session) ==
  SelectSeq(session.created_files, LAMBDA f : f.stem = "conversations_")

calculateTotalConversations(d, conversationFiles) ==
  SumSeq([i \in 1..Len(conversationFiles) |->
            batchContribution(d, conversationFiles[i])])

managerManifest(d, session) ==
  [kind |-> "manifest",
   mcp_version |-> "1.0.0",
   ai_name |-> "Exported AI Experience",
   ai_context |-> "exported",
   experience_summary |-> "exported",
   experience_flow |-> <<"exported">>,
   files |-> [conversations |-> createdConversationFiles(session),
              insights |-> InsightsName,
              patterns |-> PatternsName,
              preferences |-> PreferencesName],
   main_topics |-> <<"exported">>,
   total_conversations |->
     calculateTotalConversations(d, createdConversationFiles(session)),
   session_id |-> session.session_id]

finalizeExport(exportId, fault) ==
  LET call == ManagerCall("finalizeExport", exportId, fault)
  IN  /\ pre' = fs
      /\ calls' = calls
      /\ IF exportId \notin DOMAIN manager.activeSessions
         THEN SessionNotFound(call)
         ELSE LET session == manager.activeSessions[exportId]
                  d == fs[session.directory_path]
                  manifestResult ==
                    writeComponentFile(d, ManifestName,
                                       managerManifest(d, session), fault)
              IN  /\ fs' = [fs EXCEPT ![session.directory_path] =
                                        manifestResult.dir]
                  /\ IF manifestResult.success
                     THEN /\ manager' =
                               [manager EXCEPT !.activeSessions =
                                                 deleteSession(@, exportId)]
                          /\ last' = [call EXCEPT
                                        !.ok = TRUE,
                                        !.dir = session.directory_path,
                                        !.files =
                                          Range(session.created_files)
                                            \cup {ManifestName}]
                     ELSE /\ manager' = manager
                          /\ last' = [Fail(call, "ManifestWriteFailed")
                                        EXCEPT !.dir = session.directory_path]

\* cancelExport answers true for an active session and false otherwise.
cancelExport(exportId) ==
  LET call == ManagerCall("cancelExport", exportId, "none")
  IN  /\ pre' = fs
      /\ calls' = calls
      /\ fs' = fs
      /\ IF exportId \in DOMAIN manager.activeSessions
         THEN /\ manager' = [manager EXCEPT !.activeSessions =
                                              deleteSession(@, exportId)]
              /\ last' = [call EXCEPT !.ok = TRUE]
         ELSE /\ manager' = manager
              /\ last' = call

ManagerInit ==
  /\ fs = [d \in DirIds \cup ManagerDirIds |-> AbsentDir]
  /\ pre = fs
  /\ last = NoResult
  /\ calls = NoCalls
  /\ manager = NoManager

ManagerNext ==
  \/ \E sid \in ManagerSessionIds, fault \in {"none", "mkdir"} :
       initializeExport(sid, fault)
  \/ \E e \in ExportIds \cup {UnknownExportId}, bn \in ManagerBatchNumbers,
        recs \in ManagerRecordLists, fault \in ManagerFaults :
       exportConversationBatch(e, bn, recs, fault)
  \/ \E e \in ExportIds \cup {UnknownExportId}, insights \in InsightLists :
       exportInsights(e, insights, "none")
  \/ \E e \in ExportIds \cup {UnknownExportId}, fault \in ManagerFaults :
       finalizeExport(e, fault)
  \/ \E e \in ExportIds \cup {UnknownExportId} : cancelExport(e)

ManagerSpec == ManagerInit /\ [][ManagerNext]_vars

\* ------------------------------------------------- restarts of the process
\* The process ends and starts again: its memory is gone, the disk stays.
Restart ==
  /\ manager' = [NoManager EXCEPT !.issued = manager.issued,
                                  !.restarted = TRUE]
  /\ pre' = fs
  /\ last' = Call("restart", <<>>, "none")
  /\ UNCHANGED <<fs, calls>>

RestartInit ==
  /\ fs = [d \in DirIds \cup ManagerDirIds |-> AbsentDir]
  /\ pre = fs
  /\ last = NoResult
  /\ calls = NoCalls
  /\ manager = NoManager

RestartNext ==
  \/ \E summary \in Summaries, fault \in WriteFaults :
       InitExport(<<"s">>, summary, fault)
  \/ \E bn \in BatchNumbers, recs \in RecordLists, fault \in WriteFaults :
       WriteBatch(<<"s">>, bn, recs, fault)
  \/ \E thoughts \in ThoughtsInputs, fault \in WriteFaults :
       WriteThoughts(<<"s">>, thoughts, fault)
  \/ \E fault \in FinalizeFaults : Finalize(<<"s">>, fault)
  \/ Status(<<"s">>)
  \/ \E sid \in ManagerSessionIds : initializeExport(sid, "none")
  \/ Restart

RestartSpec == RestartInit /\ [][RestartNext]_vars

\* ================================================================== claims
\* Vocabulary of the claims, stated on the directory contents alone.
BatchFilesIn(d) == {f \in Listing(d) : f.stem = "conversations_"}

RecordsHeld(c) == IF c.kind = "batch" THEN Len(c.conversations) ELSE 0

RECURSIVE RecordsIn(_, _)
RecordsIn(d, S) ==
  IF S = {} THEN 0
  ELSE LET f == CHOOSE x \in S : TRUE
       IN  RecordsHeld(d.files[f]) + RecordsIn(d, S \ {f})

HasPathChars(sid) ==
  \/ \E i \in 1..Len(sid) : sid[i] \in {"/", "\\"}
  \/ \E i \in 1..(Len(sid) - 1) : sid[i] = "." /\ sid[i + 1] = "."

BadId(sid) == sid = <<>> \/ HasPathChars(sid)

WriterOps == {"init", "write_batch", "write_thoughts", "finalize", "status"}

FinalizeSucceeded == last.op = "finalize" /\ last.ok

ManifestOf(d) == d.files[ManifestName]

\* C1: with summary.json and exactly the batch files 1..N in the directory,
\* status answers in_progress and next_batch_number N+1.
C1_ResumeAfterBatches ==
  \A n \in 1..MaxBatch :
    ( /\ last.op = "status"
      /\ last.ok
      /\ fs[last.dir].exists
      /\ Listing(fs[last.dir]) =
           {SummaryName} \cup {BatchFileName(k) : k \in 1..n} )
    => (last.status = "in_progress" /\ last.next = n + 1)

C1_Witness ==
  /\ last.op = "status"
  /\ last.ok
  /\ Listing(fs[last.dir]) =
       {SummaryName} \cup {BatchFileName(k) : k \in 1..MaxBatch}
  /\ last.next = MaxBatch + 1

\* C2: status answers completed with next_batch_number -1 exactly when
\* manifest.json is among the directory entries.
C2_CompletedIffManifest ==
  (last.op = "status" /\ last.ok)
  => ( (last.status = "completed" /\ last.next = 0 - 1)
       <=> (ManifestName \in Listing(fs[last.dir])) )
     /\ (last.status = "completed" <=> last.next = 0 - 1)

C2_Witness ==
  /\ last.op = "status"
  /\ last.status = "completed"
  /\ {ManifestName, SummaryName, ThoughtsName} \subseteq Listing(fs[last.dir])
  /\ BatchFilesIn(fs[last.dir]) # {}

C4_ManifestListsFiles ==
  FinalizeSucceeded
  => LET d == fs[last.dir]
         m == ManifestOf(d)
     IN  /\ Range(m.files.conversations) = BatchFilesIn(d)
         /\ Len(m.files.conversations) = Cardinality(BatchFilesIn(d))
         /\ (m.files.thoughts = ThoughtsName) <=> (ThoughtsName \in Listing(d))

C4_Witness ==
  /\ FinalizeSucceeded
  /\ Cardinality(BatchFilesIn(fs[last.dir])) = 2
  /\ ThoughtsName \notin Listing(fs[last.dir])
  /\ ManifestOf(fs[last.dir]).files.thoughts = EmptyName

\* C5: a finalize that reports success leaves manifest.json present and
\* summary.json absent, and returns exactly the files of the directory.
C5_SuccessMeansCleaned ==
  FinalizeSucceeded
  => /\ ManifestName \in Listing(fs[last.dir])
     /\ SummaryName \notin Listing(fs[last.dir])
     /\ last.files = Listing(fs[last.dir])

\* A directory exactly as a successful finalize leaves it.
Untouched(d) ==
  /\ ManifestName \in Listing(d)
  /\ SummaryName \notin Listing(d)
  /\ ManifestOf(d).kind = "manifest"
  /\ Range(ManifestOf(d).files.conversations) = BatchFilesIn(d)
  /\ ManifestOf(d).total_conversations = RecordsIn(d, BatchFilesIn(d))
  /\ (ManifestOf(d).files.thoughts = ThoughtsName)
       <=> (ThoughtsName \in Listing(d))

\* C6: validate on a finalized, unmodified directory reports valid with no
\* error and no missing file.
C6_RoundTripValid ==
  (last.op = "validate" /\ Untouched(fs[last.dir]))
  => (last.ok /\ last.valid /\ last.errors = {} /\ last.missing = {})

\* C7 as stated: every writer operation and status rejects an empty id or one
\* holding '/', '\' or '..', and changes nothing.
C7_BadIdRejected ==
  (last.op \in WriterOps /\ BadId(last.sid))
  => ( /\ ~last.ok
       /\ last.error \in {"SecurityError", "ZodError"}
       /\ fs = pre )

\* C7 amended: as above except init with an empty id, which (absent a storage
\* failure) generates an identifier and succeeds; no directory ever exists
\* under an id holding a path character.
C7_BadIdRejectedExceptEmptyInit ==
  /\ (last.op \in WriterOps /\ BadId(last.sid)
        /\ ~(last.op = "init" /\ last.sid = <<>>))
     => ( /\ ~last.ok
          /\ last.error \in {"SecurityError", "ZodError"}
          /\ fs = pre )
  /\ (last.op = "init" /\ last.sid = <<>> /\ last.fault = "none")
     => (last.ok /\ ~BadId(last.dir) /\ fs[last.dir].exists)
  /\ \A d \in DirIds : BadId(d) => ~fs[d].exists

C7_Witness ==
  /\ last.op = "write_batch"
  /\ last.sid = <<".", ".">>
  /\ ~last.ok
  /\ fs[<<"s">>].exists

\* C8: of two successive successful write_batch calls for the same session
\* and number, the file holds the second call's records only, and is
\* unchanged when the records are the same.
C8_LastWriteWins ==
  [][ ( /\ last.op = "write_batch" /\ last.ok
        /\ last'.op = "write_batch" /\ last'.ok
        /\ last'.sid = last.sid /\ last'.bn = last.bn )
      => LET d == fs'[last'.dir]
             f == BatchFileName(last'.bn)
         IN  /\ f \in Listing(d)
             /\ d.files[f].conversations = last'.recs
             /\ d.files[f].batch_info.count = Len(last'.recs)
             /\ d.files[f].batch_info.batch_number = last'.bn
             /\ Cardinality({g \in BatchFilesIn(d) :
                               ParseInt(g.digits) = last'.bn}) = 1
             /\ (last'.recs = last.recs
                   => d.files[f] = fs[last.dir].files[f]) ]_vars

C8_Witness ==
  /\ last.op = "write_batch"
  /\ last.ok
  /\ BatchFileName(last.bn) \in Listing(pre[last.dir])
  /\ pre[last.dir].files[BatchFileName(last.bn)].conversations # last.recs
  /\ fs[last.dir].files[BatchFileName(last.bn)].conversations = last.recs

\* C9: finalize on a directory without summary.json fails as staging-missing
\* and writes nothing, so no manifest.json appears.
C9_FinalizeNeedsSummary ==
  ( /\ last.op = "finalize"
    /\ ~BadId(last.sid)
    /\ SummaryName \notin Listing(pre[last.sid]) )
  => ( /\ ~last.ok
       /\ last.error = "StagingMissing"
       /\ fs = pre )

C9_Witness ==
  /\ last.op = "finalize"
  /\ ~last.ok
  /\ last.error = "StagingMissing"
  /\ BatchFilesIn(fs[last.sid]) # {}
  /\ ManifestName \notin Listing(fs[last.sid])

\* C10: finalize on a completed directory whose summary.json is gone reports
\* no error and leaves the manifest as it was.
C10_RefinalizeTolerated ==
  ( /\ last.op = "finalize"
    /\ ~BadId(last.sid)
    /\ ManifestName \in Listing(pre[last.sid])
    /\ SummaryName \notin Listing(pre[last.sid]) )
  => ( /\ last.ok
       /\ ManifestName \in Listing(fs[last.sid])
       /\ ManifestOf(fs[last.sid]) = ManifestOf(pre[last.sid]) )

\* C11: once a finalize of a session has succeeded, every later status call
\* for that session answers completed with next_batch_number -1, whatever
\* calls (further finalize calls included, failing or not) come in between.
C11_CompletedStays ==
  \A s \in {<<"s">>} \cup Uuids :
    []( (FinalizeSucceeded /\ last.dir = s)
        => []( (last.op = "status" /\ last.sid = s)
               => ( /\ last.ok
                    /\ last.status = "completed"
                    /\ last.next = 0 - 1 ) ) )

\* A further finalize on a completed session has just failed.
C11_Witness ==
  /\ last.op = "finalize"
  /\ ~last.ok
  /\ last.error \in {"StagingMissing", "ManifestWriteFailed"}
  /\ ManifestName \in Listing(pre[last.sid])
  /\ getExportStatus(fs[last.sid]).status = "completed"

\* C12: when a finalize died between writing manifest.json and removing
\* summary.json, a status call coming next answers completed, and a finalize
\* coming next (without a storage failure) succeeds, leaves a manifest equal
\* to the one already written and removes summary.json.
C12_RecoverAfterCrash ==
  [][ (last.op = "finalize" /\ last.error = "Crashed")
      => ( /\ {ManifestName, SummaryName} \subseteq Listing(fs[last.sid])
           /\ (last'.op = "status" /\ last'.sid = last.sid)
                => (last'.status = "completed" /\ last'.next = 0 - 1)
           /\ (last'.op = "finalize" /\ last'.sid = last.sid
                 /\ last'.fault = "none")
                => ( /\ last'.ok
                     /\ ManifestName \in Listing(fs'[last.sid])
                     /\ ManifestOf(fs'[last.sid]) = ManifestOf(fs[last.sid])
                     /\ SummaryName \notin Listing(fs'[last.sid]) ) ) ]_vars

\* A finalize has just succeeded on a directory that held both manifest.json
\* and summary.json, with batches and thoughts, and rewrote the same manifest.
C12_Witness ==
  /\ FinalizeSucceeded
  /\ last.fault = "none"
  /\ {ManifestName, SummaryName, ThoughtsName} \subseteq Listing(pre[last.sid])
  /\ BatchFilesIn(pre[last.sid]) # {}
  /\ ManifestOf(fs[last.sid]) = ManifestOf(pre[last.sid])
  /\ SummaryName \notin Listing(fs[last.sid])

\* A batch file that does not parse, or parses without the conversations
\* array the batch schema requires.
CorruptBatch(c) == c.kind = "partial" \/ "conversations" \notin DOMAIN c

\* C13: a finalize that finds an unparsable or schema-failing batch file in
\* the directory fails, writes no manifest.json and keeps summary.json.
C13_CorruptBatchAborts ==
  ( /\ last.op = "finalize"
    /\ ~BadId(last.sid)
    /\ SummaryName \in Listing(pre[last.sid])
    /\ \E f \in BatchFilesIn(pre[last.sid]) :
         CorruptBatch(pre[last.sid].files[f]) )
  => ( /\ ~last.ok
       /\ fs = pre
       /\ SummaryName \in Listing(fs[last.sid]) )

\* What a validation call was given: the manifest and the supplied files.
\* The function is handed both; the tool reads the manifest and then the
\* files the manifest names.
ManifestGiven == fs[last.dir].files[ManifestName]

SuppliedGiven ==
  IF last.op = "check" THEN suppliedFilesOf(fs[last.dir])
  ELSE LET d == fs[last.dir]
           named == Range(ManifestGiven.files.conversations)
                      \cup {ManifestGiven.files.thoughts}
           there == {f \in named \cap Listing(d) : d.files[f].kind # "partial"}
       IN  [f \in there |-> d.files[f]]

NamedByManifest ==
  Range(ManifestGiven.files.conversations) \cup {ManifestGiven.files.thoughts}

ManifestPasses ==
  /\ ManifestName \in Listing(fs[last.dir])
  /\ experienceMetadataSchema(ManifestGiven)

SchemaOrPresenceFails ==
  \/ ~ManifestPasses
  \/ \E f \in DOMAIN SuppliedGiven :
       ~validateFileContent(f, SuppliedGiven[f]).valid
  \/ \E f \in NamedByManifest : f \notin DOMAIN SuppliedGiven

ValidBatchesReported ==
  {f \in DOMAIN last.file_validations :
     f.stem = "conversations_" /\ conversationBatchSchema(SuppliedGiven[f])}

CountDrift(c) == c.batch_info.count # Len(c.conversations)

\* C15: in every report, a schema-valid batch file carries the count-mismatch
\* warning exactly when its declared count differs from its number of
\* records; the file stays valid, and so does a report with no schema or
\* presence failure.
C15_CountMismatchWarns ==
  (last.op \in {"check", "validate"})
  => /\ \A f \in ValidBatchesReported :
          /\ last.file_validations[f].valid
          /\ ("Conversation count mismatch"
                \in last.file_validations[f].warnings)
               <=> CountDrift(SuppliedGiven[f])
          /\ CountDrift(SuppliedGiven[f])
               => "Conversation count mismatch" \in last.warnings
     /\ ( (\E f \in ValidBatchesReported : CountDrift(SuppliedGiven[f]))
            /\ ~SchemaOrPresenceFails )
        => last.valid

\* The tool has reported a valid directory whose batch declares one record
\* more than it holds.
C15_Witness ==
  /\ last.op = "validate"
  /\ last.ok
  /\ last.valid
  /\ \E f \in ValidBatchesReported :
       /\ SuppliedGiven[f].batch_info.count = 2
       /\ Len(SuppliedGiven[f].conversations) = 1
       /\ last.file_validations[f].warnings = {"Conversation count mismatch"}

\* The records actually held by the supplied batch files the manifest names.
ActualRecords(c) == IF "conversations" \in DOMAIN c THEN Len(c.conversations) ELSE 0

ActualTotal ==
  LET names == ManifestGiven.files.conversations
  IN  SumSeq([i \in 1..Len(names) |->
                IF names[i] \in DOMAIN SuppliedGiven
                THEN ActualRecords(SuppliedGiven[names[i]]) ELSE 0])

\* C16: for a schema-valid manifest, the total-mismatch warning is in the
\* report exactly when the manifest total differs from the records held by
\* the batch files the manifest names, and valid stays true when nothing in
\* the schema or presence layer failed.
C16_TotalMismatchWarns ==
  (last.op \in {"check", "validate"} /\ ManifestPasses)
  => /\ ("Total conversation count mismatch" \in last.warnings)
          <=> (ManifestGiven.total_conversations # ActualTotal)
     /\ ~SchemaOrPresenceFails => last.valid

\* C17: missing_files of a report holds exactly the files the manifest names
\* (batch list and notes entry) that were not supplied, and a report with a
\* missing file is not valid.
C17_MissingFilesExact ==
  (last.op \in {"check", "validate"} /\ ManifestPasses)
  => /\ last.missing = {f \in NamedByManifest : f \notin DOMAIN SuppliedGiven}
     /\ last.missing # {} => ~last.valid

\* A batch file holding every required field with an admissible value,
\* whatever else it holds.
HasRequiredBatchFields(c) ==
  /\ {"batch_info", "conversations"} \subseteq DOMAIN c
  /\ {"batch_number", "count"} \subseteq DOMAIN c.batch_info
  /\ c.batch_info.batch_number >= 1
  /\ c.batch_info.count >= 0
  /\ "start_index" \in DOMAIN c.batch_info => c.batch_info.start_index >= 1
  /\ "end_index" \in DOMAIN c.batch_info => c.batch_info.end_index >= 1
  /\ \A i \in 1..Len(c.conversations) :
       {"user_input", "ai_response"} \subseteq DOMAIN c.conversations[i]

\* C18: a batch file with every required field passes the schema layer,
\* whatever unknown fields it carries at the top level, in batch_info or in
\* a record.
C18_UnknownFieldsTolerated ==
  (last.op \in {"check", "validate"})
  => \A f \in DOMAIN last.file_validations :
       (f.stem = "conversations_" /\ HasRequiredBatchFields(SuppliedGiven[f]))
       => last.file_validations[f].valid

\* The subdirectories whose manifest.json exists, parses and has the shape of
\* a manifest, and the other subdirectories.
GoodDirs ==
  {d \in DirIds : /\ fs[d].exists
                  /\ ManifestName \in Listing(fs[d])
                  /\ fs[d].files[ManifestName].kind = "manifest"
                  /\ experienceMetadataSchema(fs[d].files[ManifestName])}

BadDirs == {d \in DirIds : fs[d].exists /\ d \notin GoodDirs}

\* C19: an unfiltered list succeeds, returns the summary of exactly the
\* subdirectories with a good manifest, and hands the caller one warning for
\* each other subdirectory.
C19_ListSkipsWithWarnings ==
  (last.op = "list" /\ last.filter = 0)
  => ( /\ last.ok
       /\ last.listed = GoodDirs
       /\ Cardinality(last.skipped) = Cardinality(BadDirs) )

\* C20: whatever init, write_batch, write_thoughts and finalize calls came
\* before, every session a list call returns is one for which status answers
\* completed.
C20_ListedOnlyCompleted ==
  (last.op = "list")
  => \A d \in last.listed :
       /\ getExportStatus(fs[d]).status = "completed"
       /\ getExportStatus(fs[d]).next = 0 - 1

\* A list that returns a completed session and passes over one in progress.
C20_Witness ==
  /\ last.op = "list"
  /\ \E d \in last.listed : BatchFilesIn(fs[d]) # {}
  /\ \E d \in DirIds :
       /\ d \notin last.listed
       /\ getExportStatus(fs[d]).status = "in_progress"

\* C21: a status call that comes right after a successful init of a session
\* whose directory did not exist answers initializing with
\* next_batch_number 1.
C21_InitThenInitializing ==
  [][ ( /\ last.op = "init" /\ last.ok
        /\ ~pre[last.dir].exists
        /\ last'.op = "status" /\ last'.sid = last.dir )
      => (last'.status = "initializing" /\ last'.next = 1) ]_vars

\* C22: status answers in_progress exactly when the directory holds a batch
\* file or thoughts.json and no manifest.json.
C22_InProgressIffContent ==
  (last.op = "status" /\ last.ok)
  => ( last.status = "in_progress"
       <=> ( /\ ManifestName \notin Listing(fs[last.dir])
             /\ \/ BatchFilesIn(fs[last.dir]) # {}
                \/ ThoughtsName \in Listing(fs[last.dir]) ) )

\* C23: status answers not_found exactly when the session directory does not
\* exist, and then without an error; it answers initializing exactly when
\* the directory exists and has no entry.
C23_NotFoundAndInitializing ==
  (last.op = "status" /\ ~BadId(last.sid))
  => /\ last.status = "not_found" <=> ~fs[last.sid].exists
     /\ last.status = "initializing"
          <=> (fs[last.sid].exists /\ Listing(fs[last.sid]) = {})
     /\ ~fs[last.sid].exists
          => (last.ok /\ last.error = "none" /\ last.next = 1
                /\ last.files = {})

\* Status has answered initializing for a directory that a failed write left
\* empty, other sessions existing next to it.
C23_Witness ==
  /\ last.op = "status"
  /\ last.status = "initializing"
  /\ fs[last.sid].exists
  /\ Listing(fs[last.sid]) = {}
  /\ last.next = 1

\* The batch numbers whose file, named as write_batch names it, is present.
NumbersPresent(d) ==
  {n \in BatchNumbers \cup WideBatchNumbers : BatchFileName(n) \in Listing(d)}

Largest(S) == IF S = {} THEN 0 ELSE CHOOSE x \in S : \A y \in S : y <= x

\* C24: for a directory without manifest.json, next_batch_number is one more
\* than the largest batch number a file name carries, 1 without batch files,
\* whatever gaps the numbering has and also past the padding width.
C24_NextIsMaxPlusOne ==
  ( /\ last.op = "status" /\ last.ok
    /\ fs[last.dir].exists
    /\ ManifestName \notin Listing(fs[last.dir]) )
  => last.next = Largest(NumbersPresent(fs[last.dir])) + 1

\* Status after batch 1 and the first four-digit batch, none in between.
C24_Witness ==
  /\ last.op = "status"
  /\ NumbersPresent(fs[last.dir]) = {1, FirstWideBatch}
  /\ last.next = FirstWideBatch + 1

\* C25: the manifest written by finalize lists the batch files by ascending
\* batch number, also past the padding width.
C25_ManifestOrderNumeric ==
  FinalizeSucceeded
  => LET names == ManifestOf(fs[last.dir]).files.conversations
     IN  \A i \in 1..Len(names), j \in 1..Len(names) :
           i < j => \E m \in NumbersPresent(fs[last.dir]),
                       n \in NumbersPresent(fs[last.dir]) :
                      /\ names[i] = BatchFileName(m)
                      /\ names[j] = BatchFileName(n)
                      /\ m < n

\* Both interleaved write_batch calls have returned success.
BothWritten == \A p \in Writers : calls[p].pc = "done" /\ calls[p].ok

\* The file of batch bn holds exactly the batch the call p sent.
HoldsContentOf(p) ==
  /\ BatchFileName(calls[p].bn) \in Listing(fs[RaceSession])
  /\ fs[RaceSession].files[BatchFileName(calls[p].bn)]
       = makeBatch(calls[p].bn, calls[p].recs)

LastWriter == CHOOSE p \in Writers : \A q \in Writers :
                calls[q].order <= calls[p].order

\* C26: after two concurrent write_batch calls on one session, with different
\* batch numbers each file holds its own call's complete batch, and with equal
\* numbers the file holds the complete batch of the call whose write completed
\* last.
C26_LastWriteWins ==
  BothWritten
  => IF calls["w1"].bn # calls["w2"].bn
     THEN \A p \in Writers : HoldsContentOf(p)
     ELSE HoldsContentOf(LastWriter)

\* The batch a writer sent is in the directory although the scan of finalize
\* did not see its file.
WrittenUnseen(p) ==
  /\ calls[p].pc = "done" /\ calls[p].ok
  /\ calls[Finalizer].pc = "done" /\ calls[Finalizer].ok
  /\ BatchFileName(calls[p].bn) \notin calls[Finalizer].allFiles
  /\ ManifestName \in Listing(fs[RaceSession])

\* C27: when finalize listed the directory before a concurrent write_batch
\* created its file and both calls return success, the manifest neither lists
\* the file nor counts its records, and finalize reports no error.
C27_RaceOmitsBatch ==
  \A p \in Writers :
    WrittenUnseen(p)
    => LET manifest == fs[RaceSession].files[ManifestName]
       IN  /\ BatchFileName(calls[p].bn) \in Listing(fs[RaceSession])
           /\ BatchFileName(calls[p].bn)
                \notin Range(manifest.files.conversations)
           /\ manifest.total_conversations
                = totalConversations(calls[Finalizer].view)
           /\ calls[Finalizer].error = "none"

\* Both calls succeeded; the directory holds a batch with a record that the
\* manifest, declaring a total of zero, does not list.
C27_Witness ==
  \E p \in Writers :
    /\ WrittenUnseen(p)
    /\ HoldsContentOf(p)
    /\ calls[p].recs # <<>>
    /\ fs[RaceSession].files[ManifestName].total_conversations = 0
    /\ fs[RaceSession].files[ManifestName].files.conversations = <<>>

\* The records held by the batch files a manifest lists; a listed file that
\* is not in the directory holds none.
ListedRecords(d) ==
  RecordsIn(d, Range(ManifestOf(d).files.conversations) \cap Listing(d))

\* C28: whenever manifest.json exists after sequential init, write_batch,
\* write_thoughts and finalize calls, its total_conversations is the sum of the
\* records actually held by the batch files it lists.
C28_TotalMatchesListed ==
  \A d \in DirIds :
    (ManifestName \in Listing(fs[d]) /\ ManifestOf(fs[d]).kind = "manifest")
    => ManifestOf(fs[d]).total_conversations = ListedRecords(fs[d])

\* C29: once manifest.json is in a session directory, no call removes it or
\* changes its content.
C29_ManifestImmutable ==
  [][ \A d \in DirIds :
        ManifestName \in Listing(fs[d])
        => /\ ManifestName \in Listing(fs'[d])
           /\ ManifestOf(fs'[d]) = ManifestOf(fs[d]) ]_vars

\* C30: no session directory whose status is completed holds summary.json.
C30_NoStagingWhenCompleted ==
  \A d \in DirIds :
    getExportStatus(fs[d]).status = "completed"
    => SummaryName \notin Listing(fs[d])

\* C31: an init or write_batch call that answers a failure leaves every
\* directory as it was before the call.
C31_FailureLeavesDiskAlone ==
  (last.op \in {"init", "write_batch"} /\ ~last.ok) => fs = pre

\* An identifier that passes the schema and the identifier check.
GoodId(sid) == sid # <<>> /\ validateSessionId(sid)

StagingReadable(d) ==
  SummaryName \in Listing(d) /\ d.files[SummaryName].kind = "summary"

C34_IdentifierCheckedFirst ==
  ( /\ last.op \in WriterOps \cup {"validate", "list"}
    /\ HasPathChars(last.sid) )
  => (last.error = "SecurityError" /\ fs = pre)

ManagerOps ==
  {"exportConversationBatch", "exportInsights", "finalizeExport"}

\* C35: in the ExportManager, an export id is not an active session after its
\* finalizeExport succeeded or its cancelExport answered true, an id that left
\* the active sessions never returns, and exportConversationBatch, a component
\* export or finalizeExport with an id that is not active fails with 'Export
\* session not found' and leaves the disk as it was.
C35_ClosedSessionStaysClosed ==
  [][ /\ ( /\ last'.op \in {"finalizeExport", "cancelExport"}
           /\ last'.ok )
         => last'.export_id \notin DOMAIN manager'.activeSessions
      /\ \A e \in ExportIds :
           ( /\ e \in {ExportId(k) : k \in 1..manager.issued}
             /\ e \notin DOMAIN manager.activeSessions )
           => e \notin DOMAIN manager'.activeSessions
      /\ ( /\ last'.op \in ManagerOps
           /\ last'.export_id \notin DOMAIN manager.activeSessions )
         => ( /\ ~last'.ok
              /\ last'.error = "ExportSessionNotFound"
              /\ fs' = fs ) ]_vars

\* A batch export was refused for the id of an export that had been
\* finalized.
C35_Witness ==
  /\ last.op = "exportConversationBatch"
  /\ last.export_id = ExportId(1)
  /\ last.error = "ExportSessionNotFound"
  /\ \E d \in ManagerDirIds : ManifestName \in Listing(fs[d])
  /\ fs = pre

\* C36: a session directory that holds summary.json or manifest.json holds
\* one of them after every later call, failed or crashed calls included, and
\* a successful init leaves summary.json when it returns: finalize removes
\* summary.json only after manifest.json has been written.
C36_StagingOrManifest ==
  [][ /\ \A d \in DirIds :
           ( \/ SummaryName \in Listing(fs[d])
             \/ ManifestName \in Listing(fs[d]) )
           => ( \/ SummaryName \in Listing(fs'[d])
                \/ ManifestName \in Listing(fs'[d]) )
      /\ (last'.op = "init" /\ last'.ok /\ calls' = calls)
           => SummaryName \in Listing(fs'[last'.dir]) ]_vars

\* A finalize whose manifest write failed left summary.json in place.
C36_Witness ==
  /\ last.op = "finalize"
  /\ last.error = "ManifestWriteFailed"
  /\ SummaryName \in Listing(fs[last.dir])
  /\ ManifestName \notin Listing(fs[last.dir])

\* C37: a write_batch with a valid identifier, any batch number from 1 and
\* any record list, the empty list included, that meets no storage failure
\* answers success, and the batch file is then in the directory with
\* batch_info.count equal to the length of the list.
C37_EveryBatchAccepted ==
  ( /\ last.op = "write_batch"
    /\ GoodId(last.sid)
    /\ last.fault = "none" )
  => ( /\ last.ok
       /\ BatchFileName(last.bn) \in Listing(fs[last.sid])
       /\ fs[last.sid].files[BatchFileName(last.bn)].kind = "batch"
       /\ fs[last.sid].files[BatchFileName(last.bn)].batch_info.count
            = Len(last.recs) )

\* C38: a validation of a manifest with supplied files always yields a
\* report and raises no error; a supplied file that fails its schema makes
\* the report invalid, and every supplied file has its file_validations
\* entry, the failing ones marked invalid.
C38_ValidateAlwaysReports ==
  ( /\ last.op \in {"check", "validate"}
    /\ ManifestName \in Listing(fs[last.dir])
    /\ ManifestGiven.kind = "manifest"
    /\ {"files", "total_conversations"} \subseteq Fields(ManifestGiven)
    /\ DOMAIN ManifestGiven.files = {"conversations", "thoughts"} )
  => ( /\ last.error # "TypeError"
       /\ DOMAIN last.file_validations = DOMAIN SuppliedGiven
       /\ \A f \in DOMAIN SuppliedGiven :
            ~validateFileContent(f, SuppliedGiven[f]).valid
            => ( /\ ~last.valid
                 /\ ~last.file_validations[f].valid ) )

ReadOps == {"status", "validate", "list"}

\* C39: status, validate and list change nothing on disk, and a status that
\* answered not_found is answered not_found again by the next status of the
\* same session.
C39_ReadOnly ==
  [][ /\ last'.op \in ReadOps => fs' = fs
      /\ ( /\ last.op = "status" /\ last.status = "not_found"
           /\ last'.op = "status" /\ last'.sid = last.sid )
         => last'.status = "not_found" ]_vars

\* A status of a session that does not exist, answered not_found while
\* another directory exists; nothing on disk has changed.
C39_Witness ==
  /\ last.op = "status" /\ last.ok
  /\ last.status = "not_found"
  /\ ~fs[last.sid].exists
  /\ fs = pre
  /\ \E d \in DirIds : fs[d].exists

NoDuplicates(q) == \A i \in 1..Len(q), j \in 1..Len(q) : q[i] = q[j] => i = j

\* C40: the manifest written by a successful finalizeExport lists each batch
\* file of the session once, and its total_conversations is the number of
\* records held by those files, also when a batch number was exported twice.
C40_ManagerManifestDistinct ==
  (last.op = "finalizeExport" /\ last.ok)
  => LET manifest == ManifestOf(fs[last.dir])
     IN  /\ NoDuplicates(manifest.files.conversations)
         /\ manifest.total_conversations
              = RecordsIn(fs[last.dir],
                          Range(manifest.files.conversations))

====
